---- MODULE Spec2Model ----
(***************************************************************************)
(* Model of sinabs-exodus: the autograd functions SpikeFunction and        *)
(* IntegrateAndFire (sinabs/exodus/spike.py) and the LIF layer that drives *)
(* them (sinabs/exodus/layers/lif.py).                                     *)
(*                                                                         *)
(* Numbers.  Potentials, inputs, thresholds and reset amounts are          *)
(* fixed-point integers in units of 1/1000 (1.0 is 1000).  A decay factor  *)
(* alpha is an integer number of halves (0 is 0.0, 1 is 0.5, 2 is 1.0; -1  *)
(* and 3 lie outside [0,1]).  alpha*v is (alpha*v) \div 2, rounded down to *)
(* a multiple of 1/1000.                                                   *)
(*                                                                         *)
(* Optional values are sequences: << >> is None, <<x>> is the value x.     *)
(* A tensor is a record [ndim, contig, data]; data is a sequence (1D) or   *)
(* a sequence of rows, each a sequence over time (2D).                     *)
(*                                                                         *)
(* The CUDA kernels of exodus_cuda and sinabs.exodus.leaky are not among   *)
(* the source files; lifForward and the leaky integrator are modelled from *)
(* the specification's sections 4.1 and 4.3.                               *)
(***************************************************************************)
EXTENDS Integers, Sequences, FiniteSets, TLC

VARIABLES
  cfg,          \* LIF layer: constructor arguments
  layer,        \* LIF layer: state buffers v_mem, i_syn, activations
  hist,         \* LIF layer: one record per forward() call made so far
  call,         \* autograd function: the call last made, [fn, args]
  status,       \* autograd function: "idle", "running", "returned", "raised" or "hung"
  error,        \* autograd function: the message of the error raised
  kernelLog,    \* kernel invocations made by the latest forward/backward pair
  ctx,          \* autograd context saved by forward for backward
  out,          \* what the last call returned
  internal,     \* kernel-internal per-step state of the last lifForward
  loop          \* a lifForward invocation followed iteration by iteration

vars == <<cfg, layer, hist, call, status, error, kernelLog, ctx, out, internal, loop>>

layerVars == <<cfg, layer, hist>>
fnVars == <<call, status, error, kernelLog, ctx, out, internal>>

(***************************************************************************)
(* Bounds                                                                  *)
(***************************************************************************)
MaxN == 2        \* rows of a tensor in a direct call
MaxT == 2        \* time steps of a direct call
LongT == 4       \* time steps of a direct call on a constant-alpha single row
LayerT == 4      \* time steps a layer processes in total
MaxCalls == 2    \* forward() calls made on one layer
MaxIter == 12    \* reset-loop iterations followed before the loop counts as endless
CounterModulus == 16   \* the spike counter of a followed reset loop is kept modulo this

(***************************************************************************)
(* Helpers                                                                 *)
(***************************************************************************)
None == << >>
Some(x) == <<x>>
IsNone(o) == o = << >>
Get(o) == o[1]

Range(s) == {s[i] : i \in 1..Len(s)}
Last(s) == s[Len(s)]

RECURSIVE SeqsUpTo(_, _)
\* the sequences over S of length exactly n
SeqsOf(S, n) == [1..n -> S]
SeqsUpTo(S, n) == IF n = 0 THEN {<< >>} ELSE SeqsOf(S, n) \cup SeqsUpTo(S, n - 1)

RECURSIVE SumSeq(_)
SumSeq(s) == IF s = << >> THEN 0 ELSE Head(s) + SumSeq(Tail(s))

Tensor(n, c, d) == [ndim |-> n, contig |-> c, data |-> d]

\* alpha * v for alpha in halves
MulAlpha(alpha, v) == (alpha * v) \div 2

(***************************************************************************)
(* exodus_cuda.lifForward: the integrate-and-fire scan.                    *)
(*                                                                         *)
(* Per row the kernel keeps (v, a): the membrane potential and the number  *)
(* of spikes of the previous time step.  A step decays and integrates,     *)
(* records the potential, counts spikes by repeated subtraction of         *)
(* membrane_subtract while v >= threshold and the cap is not reached, and  *)
(* clamps the potential left after the reset to min_v_mem.  The state      *)
(* handed to a call is the pair recorded for the step before its first     *)
(* one ("activations from previous time step"): its reset is applied       *)
(* before the first decay, as for every later step.                        *)
(***************************************************************************)
ClampLow(v, min_v_mem, apply_min) ==
  IF apply_min /\ v < min_v_mem THEN min_v_mem ELSE v

RECURSIVE ResetLoop(_, _, _, _, _)
\* the number of spikes emitted from potential v; above MaxIter: the loop does not end
ResetLoop(v, count, membrane_subtract, threshold, max_spikes) ==
  IF v >= threshold /\ (max_spikes < 0 \/ count < max_spikes) /\ count <= MaxIter
  THEN ResetLoop(v - membrane_subtract, count + 1, membrane_subtract, threshold, max_spikes)
  ELSE count

\* the state a step leaves for the next one: reset by the spikes emitted, then clamp
PostReset(v, s, membrane_subtract, min_v_mem, apply_min) ==
  ClampLow(v - s * membrane_subtract, min_v_mem, apply_min)

RECURSIVE RowScan(_, _, _, _, _, _, _, _)
\* x: the inputs not yet consumed; post: the state left by the previous step
RowScan(x, post, alpha, membrane_subtract, threshold, min_v_mem, apply_min, max_spikes) ==
  IF x = << >> THEN << >>
  ELSE LET v == MulAlpha(alpha, post) + Head(x)
           s == ResetLoop(v, 0, membrane_subtract, threshold, max_spikes)
           p == PostReset(v, s, membrane_subtract, min_v_mem, apply_min)
       IN <<[v |-> v, s |-> s, post |-> p]>>
            \o RowScan(Tail(x), p, alpha, membrane_subtract, threshold,
                       min_v_mem, apply_min, max_spikes)

\* element n of a per-row tensor; past its end the kernel reads whatever lies there
ParamAt(p, n, garbage) == IF n <= Len(p) THEN p[n] ELSE garbage

\* k: the arguments of lifForward (see LifForwardCall)
lifForward(k, garbage) ==
  LET N == Len(k.inp)
      T == Len(k.inp[1])
      steps == [n \in 1..N |->
                 LET ms == ParamAt(k.membrane_subtract, n, garbage)
                 IN RowScan(k.inp[n],
                            PostReset(ParamAt(k.v_mem_init, n, garbage),
                                      ParamAt(k.activations, n, garbage),
                                      ms, k.min_v_mem, k.apply_min),
                            ParamAt(k.alpha, n, garbage), ms, k.threshold,
                            k.min_v_mem, k.apply_min, k.max_spikes)]
  IN [spikes |-> [n \in 1..N |-> [t \in 1..T |-> steps[n][t].s]],
      v_mem  |-> [n \in 1..N |-> [t \in 1..T |-> steps[n][t].v]],
      post   |-> [n \in 1..N |-> [t \in 1..T |-> steps[n][t].post]],
      hung   |-> \E n \in 1..N, t \in 1..T : steps[n][t].s > MaxIter]

(***************************************************************************)
(* sinabs.exodus.leaky.LeakyIntegrator: the leaky-integrator scan.         *)
(***************************************************************************)
RECURSIVE LeakyScan(_, _, _)
LeakyScan(x, s, alpha) ==
  IF x = << >> THEN << >>
  ELSE LET s1 == MulAlpha(alpha, s) + Head(x)
       IN <<s1>> \o LeakyScan(Tail(x), s1, alpha)

\* inp: rows of inputs; state0, alpha: one value per row
LeakyIntegrator(inp, state0, alpha) ==
  [n \in 1..Len(inp) |-> LeakyScan(inp[n], state0[n], alpha[n])]

(***************************************************************************)
(* IntegrateAndFire (spike.py)                                             *)
(*                                                                         *)
(* args: [inp, alpha, alpha_requires_grad, v_mem_init, activations,        *)
(*        threshold, membrane_subtract, min_v_mem, max_num_spikes_per_bin] *)
(* with inp, alpha, v_mem_init, activations tensors, membrane_subtract an  *)
(* optional tensor, min_v_mem and max_num_spikes_per_bin optional numbers. *)
(* surrogate_grad_fn is an opaque callable and is not represented.         *)
(***************************************************************************)
NoCtx == [kind |-> "none"]

\* membrane_subtract defaults to ones_like(alpha) * threshold
MembraneSubtractOrDefault(a) ==
  IF IsNone(a.membrane_subtract)
  THEN Tensor(a.alpha.ndim, TRUE, [i \in DOMAIN a.alpha.data |-> a.threshold])
  ELSE Get(a.membrane_subtract)

\* the message of the first check that fails, "" when all pass
IafValidate(a, ms) ==
  CASE a.inp.ndim # 2          -> "'inp' must be 2D, (N, Time)"
    [] ~a.inp.contig           -> "'inp' has to be contiguous."
    [] a.alpha.ndim # 1        -> "'alpha' must be 1D, (N,)"
    [] ~a.alpha.contig         -> "'alpha' has to be contiguous."
    [] ms.ndim # 1             -> "'membrane_subtract' must be 1D, (N,)"
    [] ~ms.contig              -> "'membrane_subtract' has to be contiguous."
    [] a.v_mem_init.ndim # 1   -> "'v_mem_init' must be 1D, (N,)"
    [] ~a.v_mem_init.contig    -> "'v_mem_init' has to be contiguous."
    [] a.activations.ndim # 1  -> "'activations' must be 1D, (N,)"
    [] ~a.activations.contig   -> "'activations' has to be contiguous."
    [] ~IsNone(a.min_v_mem) /\ a.threshold <= Get(a.min_v_mem)
                               -> "threshold must be greater than min_v_mem."
    [] (\E i \in DOMAIN a.alpha.data : a.alpha.data[i] < 0)
         \/ (\E i \in DOMAIN a.alpha.data : a.alpha.data[i] > 2)
                               -> "'alpha' must be between 0 and 1."
    [] OTHER                   -> ""

\* the lower bound handed to lifForward
IafKernelMinVMem(min_v_mem) == IF ~IsNone(min_v_mem) THEN Get(min_v_mem) ELSE 0

\* a variant that applies the bound exactly when none is given
IafKernelApplyMinInverted(min_v_mem) == IsNone(min_v_mem)

\* whether lifForward applies the lower bound
IafKernelApplyMin(min_v_mem) == ~IsNone(min_v_mem)

\* a variant that never limits the spikes
IafKernelMaxSpikesUnlimited(max_num_spikes_per_bin) == -1

\* a variant whose value for "no limit" is 0, as for min_v_mem
IafKernelMaxSpikesZeroDefault(max_num_spikes_per_bin) ==
  IF IsNone(max_num_spikes_per_bin) THEN 0 ELSE Get(max_num_spikes_per_bin)

\* the spike cap handed to lifForward
IafKernelMaxSpikes(max_num_spikes_per_bin) ==
  IF IsNone(max_num_spikes_per_bin) THEN -1 ELSE Get(max_num_spikes_per_bin)

\* the reset amount handed to lifForward
IafKernelMembraneSubtract(ms, alpha) == ms

\* a variant with threshold and min_v_mem in each other's position
LifForwardCallSwapped(a, ms) ==
  [fn                |-> "lifForward",
   inp               |-> a.inp.data,
   v_mem_init        |-> a.v_mem_init.data,
   activations       |-> a.activations.data,
   alpha             |-> a.alpha.data,
   membrane_subtract |-> IafKernelMembraneSubtract(ms.data, a.alpha.data),
   threshold         |-> IafKernelMinVMem(a.min_v_mem),
   min_v_mem         |-> a.threshold,
   apply_min         |-> IafKernelApplyMin(a.min_v_mem),
   max_spikes        |-> IafKernelMaxSpikes(a.max_num_spikes_per_bin)]

\* the arguments of the exodus_cuda.lifForward call
LifForwardCall(a, ms) ==
  [fn                |-> "lifForward",
   inp               |-> a.inp.data,
   v_mem_init        |-> a.v_mem_init.data,
   activations       |-> a.activations.data,
   alpha             |-> a.alpha.data,
   membrane_subtract |-> IafKernelMembraneSubtract(ms.data, a.alpha.data),
   threshold         |-> a.threshold,
   min_v_mem         |-> IafKernelMinVMem(a.min_v_mem),
   apply_min         |-> IafKernelApplyMin(a.min_v_mem),
   max_spikes        |-> IafKernelMaxSpikes(a.max_num_spikes_per_bin)]

\* membrane_subtract * alpha under torch's broadcasting; None when the shapes
\* do not broadcast
BroadcastMul(ms, alpha) ==
  CASE Len(ms) = Len(alpha) -> Some([i \in 1..Len(alpha) |-> MulAlpha(alpha[i], ms[i])])
    [] Len(ms) = 1          -> Some([i \in 1..Len(alpha) |-> MulAlpha(alpha[i], ms[1])])
    [] Len(alpha) = 1       -> Some([i \in 1..Len(ms) |-> MulAlpha(alpha[1], ms[i])])
    [] OTHER                -> None

\* a variant that keeps the reset amount unscaled
CtxMembraneSubtractUnscaled(ms, alpha) == Some(ms)

\* ctx.membrane_subtract
CtxMembraneSubtract(ms, alpha) == BroadcastMul(ms, alpha)

\* IntegrateAndFire.forward: what the call leaves behind
IafForward(a, garbage) ==
  LET ms  == MembraneSubtractOrDefault(a)
      msg == IafValidate(a, ms)
      k   == LifForwardCall(a, ms)
      r   == lifForward(k, garbage)
      cms == CtxMembraneSubtract(ms.data, a.alpha.data)
  IN IF msg # ""
     THEN [status |-> "raised", error |-> msg, kernelLog |-> << >>,
           ctx |-> NoCtx, out |-> None, internal |-> None]
     ELSE IF r.hung
     THEN [status |-> "hung", error |-> "", kernelLog |-> <<k>>,
           ctx |-> NoCtx, out |-> None, internal |-> None]
     ELSE IF IsNone(cms)
     THEN [status |-> "raised",
           error |-> "The size of tensor a must match the size of tensor b",
           kernelLog |-> <<k>>,
           ctx |-> [kind |-> "partial", threshold |-> a.threshold,
                    min_v_mem |-> a.min_v_mem],
           out |-> None, internal |-> Some(r.post)]
     ELSE [status |-> "returned", error |-> "", kernelLog |-> <<k>>,
           ctx |-> [kind              |-> "IntegrateAndFire",
                    threshold         |-> a.threshold,
                    min_v_mem         |-> a.min_v_mem,
                    membrane_subtract |-> Get(cms),
                    v_mem             |-> r.v_mem,
                    alpha             |-> a.alpha.data,
                    get_alpha_grads   |-> a.alpha_requires_grad],
           out |-> Some([spikes |-> r.spikes, v_mem |-> r.v_mem]),
           internal |-> Some(r.post)]

\* torch.nonzero(g): one row of (zero-based) indices per nonzero element of g
Nonzero(g) ==
  {<<p[1] - 1, p[2] - 1>> :
     p \in {q \in (1..Len(g)) \X (1..Len(g[1])) : g[q[1]][q[2]] # 0}}

\* tensor.any() of an index tensor: some element of some row is nonzero
TensorAny(rows) == \E r \in rows : \E i \in 1..Len(r) : r[i] # 0

\* the test guarding backward: torch.nonzero(grad_v_mem).any()
GradVMemTest(grad_v_mem) == TensorAny(Nonzero(grad_v_mem))

\* not_clipped: where the saved potential lies above min_v_mem
NotClipped(v_mem, min_v_mem) ==
  [n \in 1..Len(v_mem) |-> [t \in 1..Len(v_mem[n]) |->
     IF IsNone(min_v_mem) THEN 1
     ELSE IF v_mem[n][t] > Get(min_v_mem) THEN 1 ELSE 0]]

UnsupportedGradient ==
  "Direct Backpropagation through membrane potential is currently not supported."

\* IntegrateAndFire.backward on context c.  The surrogate gradients and the
\* kernels' numeric results are opaque; the calls made are recorded.
IafBackward(c, log, grad_v_mem) ==
  LET nc == NotClipped(c.v_mem, c.min_v_mem)
      kb == [fn |-> "lifBackward", not_clipped |-> nc, alpha |-> c.alpha,
             membrane_subtract |-> c.membrane_subtract]
      ka == [fn |-> "lifBackwardAlpha", not_clipped |-> nc, alpha |-> c.alpha,
             membrane_subtract |-> c.membrane_subtract, v_mem |-> c.v_mem]
  IN IF GradVMemTest(grad_v_mem)
     THEN [status |-> "raised", error |-> UnsupportedGradient,
           kernelLog |-> log, out |-> None]
     ELSE [status |-> "returned", error |-> "",
           kernelLog |-> IF c.get_alpha_grads THEN log \o <<kb, ka>> ELSE log \o <<kb>>,
           out |-> Some([grad_input |-> TRUE, grad_alpha |-> c.get_alpha_grads])]

(***************************************************************************)
(* SpikeFunction (spike.py)                                                *)
(*                                                                         *)
(* args: [v_mem, membrane_subtract, alpha, threshold, min_v_mem,           *)
(*        max_num_spikes_per_bin]; v_mem a tensor, the others numbers.     *)
(* The numeric result of spikeForward is opaque.                           *)
(***************************************************************************)
SpikeValidate(a) ==
  CASE ~a.v_mem.contig  -> "'v_mem' has to be contiguous."
    [] a.v_mem.ndim # 2 -> "'v_mem' must be 2D, (N, Time)"
    [] ~IsNone(a.min_v_mem) /\ a.threshold <= Get(a.min_v_mem)
                        -> "threshold must be greater than min_v_mem."
    [] OTHER            -> ""

\* the lower bound handed to spikeForward
SpikeKernelMinVMem(min_v_mem, threshold) == IF IsNone(min_v_mem) THEN 0 ELSE threshold

\* the spike cap handed to spikeForward
SpikeKernelMaxSpikes(max_num_spikes_per_bin) ==
  IF IsNone(max_num_spikes_per_bin) THEN -1 ELSE Get(max_num_spikes_per_bin)

\* the arguments of the exodus_cuda.spikeForward call
SpikeForwardCall(a) ==
  [fn                |-> "spikeForward",
   v_mem             |-> a.v_mem.data,
   alpha             |-> a.alpha,
   membrane_subtract |-> a.membrane_subtract,
   threshold         |-> a.threshold,
   min_v_mem         |-> SpikeKernelMinVMem(a.min_v_mem, a.threshold),
   apply_min         |-> ~IsNone(a.min_v_mem),
   max_spikes        |-> SpikeKernelMaxSpikes(a.max_num_spikes_per_bin)]

SpikeForward(a) ==
  LET msg == SpikeValidate(a)
      k   == SpikeForwardCall(a)
  IN IF msg # ""
     THEN [status |-> "raised", error |-> msg, kernelLog |-> << >>,
           ctx |-> NoCtx, out |-> None, internal |-> None]
     ELSE [status |-> "returned", error |-> "", kernelLog |-> <<k>>,
           ctx |-> [kind              |-> "SpikeFunction",
                    alpha             |-> a.alpha,
                    threshold         |-> a.threshold,
                    min_v_mem         |-> a.min_v_mem,
                    membrane_subtract |-> a.membrane_subtract,
                    shape             |-> <<Len(a.v_mem.data), Len(a.v_mem.data[1])>>],
           out |-> Some([spikes |-> TRUE, v_mem |-> TRUE]),
           internal |-> None]

SpikeBackward(c, log, grad_v_mem) ==
  LET kb == [fn |-> "spikeBackward", alpha |-> c.alpha,
             membrane_subtract |-> c.membrane_subtract]
  IN IF GradVMemTest(grad_v_mem)
     THEN [status |-> "raised", error |-> UnsupportedGradient,
           kernelLog |-> log, out |-> None]
     ELSE [status |-> "returned", error |-> "", kernelLog |-> log \o <<kb>>,
           out |-> Some([grad_input |-> TRUE, grad_alpha |-> FALSE])]

(***************************************************************************)
(* Arguments of the direct calls                                           *)
(***************************************************************************)
Thresholds == {1000}
InputValues == {-1000, 0, 1000, 2000}
AlphaValues == {-1, 0, 1, 2, 3}
ValidAlphas == {1, 2}
VMemInits == {0, 1000}
ActivationValues == {0, 1, 2}
MembraneSubtracts == {0, 500}
MinVMems == {None, Some(-500), Some(1000)}
MaxSpikes == {None, Some(1), Some(2)}
GarbageValues == {0, 1000}
TensorKinds == {"ok", "rank", "stride"}

Matrices(S, N, T) == SeqsOf(SeqsOf(S, T), N)

\* a tensor of d dimensions when well-formed; "rank": one dimension too many;
\* "stride": not contiguous
TensorOfKind(kind, d, data) ==
  Tensor(IF kind = "rank" THEN d + 1 ELSE d, kind # "stride", data)

IafArgs(inp, alpha, rg, v, act, thr, ms, mn, cap) ==
  [inp |-> inp, alpha |-> alpha, alpha_requires_grad |-> rg, v_mem_init |-> v,
   activations |-> act, threshold |-> thr, membrane_subtract |-> ms,
   min_v_mem |-> mn, max_num_spikes_per_bin |-> cap]

SpikeArgSet ==
  UNION {
    {[v_mem |-> TensorOfKind(k, 2, [n \in 1..nt[1] |-> [t \in 1..nt[2] |-> 0]]),
      membrane_subtract |-> 1000, alpha |-> al, threshold |-> 1000,
      min_v_mem |-> mn, max_num_spikes_per_bin |-> cap] :
       k \in TensorKinds, al \in ValidAlphas, mn \in MinVMems, cap \in MaxSpikes}
    : nt \in (1..MaxN) \X (1..MaxT)}

\* the gradients arriving on the membrane-potential output: zero or one per element
GradVMems(N, T) == Matrices({0, 1}, N, T)

(***************************************************************************)
(* Direct calls of the autograd functions.  The functions are static and   *)
(* a context belongs to one forward call, so a behaviour makes one forward *)
(* call and then at most one backward call on its context.                 *)
(***************************************************************************)
IafForwardCalled(a, g) ==
  \E r \in {IafForward(a, g)} :
     /\ call' = [fn |-> "IntegrateAndFire.forward", args |-> a, grad_v_mem |-> None]
     /\ status' = r.status
     /\ error' = r.error
     /\ kernelLog' = r.kernelLog
     /\ ctx' = r.ctx
     /\ out' = r.out
     /\ internal' = r.internal
     /\ UNCHANGED <<layerVars, loop>>

\* one row, well-formed tensors, every combination of values
CallIafForwardOneRow ==
  \E T \in 1..MaxT :
    \E x \in Matrices(InputValues, 1, T), al \in AlphaValues, rg \in BOOLEAN,
       v \in VMemInits, ac \in ActivationValues, thr \in Thresholds,
       ms \in {None} \cup {Some(Tensor(1, TRUE, <<m>>)) : m \in MembraneSubtracts},
       mn \in MinVMems, cap \in MaxSpikes :
      IafForwardCalled(
        IafArgs(Tensor(2, TRUE, x), Tensor(1, TRUE, <<al>>), rg, Tensor(1, TRUE, <<v>>),
                Tensor(1, TRUE, <<ac>>), thr, ms, mn, cap), 0)

\* several rows with per-row parameters, well-formed tensors, one time step
CallIafForwardRows ==
  \E N \in 2..MaxN :
    \E x \in Matrices({0, 2000}, N, 1), al \in SeqsOf(ValidAlphas, N), rg \in BOOLEAN,
       ac \in SeqsOf({0, 1}, N),
       ms \in {None} \cup {Some(Tensor(1, TRUE, m)) : m \in SeqsOf({500, 1000}, N)},
       mn \in {None, Some(-500)}, cap \in MaxSpikes :
      IafForwardCalled(
        IafArgs(Tensor(2, TRUE, x), Tensor(1, TRUE, al), rg,
                Tensor(1, TRUE, [n \in 1..N |-> 0]), Tensor(1, TRUE, ac), 1000,
                ms, mn, cap), 0)

\* tensors of every rank, layout and length around fixed values
CallIafForwardShapes ==
  \E N \in 1..MaxN :
    \E ki \in TensorKinds, ka \in TensorKinds, kv \in TensorKinds, kc \in TensorKinds,
       km \in TensorKinds, la \in 1..MaxN, lv \in 1..MaxN, lc \in 1..MaxN,
       lm \in 1..MaxN, g \in GarbageValues :
      IafForwardCalled(
        IafArgs(TensorOfKind(ki, 2, [n \in 1..N |-> <<2000>>]),
                TensorOfKind(ka, 1, [n \in 1..la |-> 2]), FALSE,
                TensorOfKind(kv, 1, [n \in 1..lv |-> 0]),
                TensorOfKind(kc, 1, [n \in 1..lc |-> 0]), 1000,
                Some(TensorOfKind(km, 1, [n \in 1..lm |-> 1000])), None, None), g)

\* one row over more time steps, from a zero state
CallIafForwardLong ==
  \E T \in (MaxT + 1)..LongT :
    \E x \in Matrices({0, 600}, 1, T), al \in ValidAlphas,
       ms \in {None, Some(Tensor(1, TRUE, <<500>>))},
       mn \in {None, Some(-500)}, cap \in MaxSpikes :
      IafForwardCalled(
        IafArgs(Tensor(2, TRUE, x), Tensor(1, TRUE, <<al>>), FALSE, Tensor(1, TRUE, <<0>>),
                Tensor(1, TRUE, <<0>>), 1000, ms, mn, cap), 0)

CallIafForward ==
  /\ status = "idle"
  /\ \/ CallIafForwardOneRow
     \/ CallIafForwardRows
     \/ CallIafForwardShapes
     \/ CallIafForwardLong

CallIafBackward ==
  /\ status = "returned"
  /\ call.fn = "IntegrateAndFire.forward"
  /\ \E gv \in GradVMems(Len(ctx.v_mem), Len(ctx.v_mem[1])) :
       \E r \in {IafBackward(ctx, kernelLog, gv)} :
          /\ call' = [call EXCEPT !.fn = "IntegrateAndFire.backward",
                                  !.grad_v_mem = Some(gv)]
          /\ status' = r.status
          /\ error' = r.error
          /\ kernelLog' = r.kernelLog
          /\ out' = r.out
  /\ UNCHANGED <<ctx, internal>>
  /\ UNCHANGED <<layerVars, loop>>

CallSpikeForward ==
  /\ status = "idle"
  /\ \E a \in SpikeArgSet :
       \E r \in {SpikeForward(a)} :
          /\ call' = [fn |-> "SpikeFunction.forward", args |-> a, grad_v_mem |-> None]
          /\ status' = r.status
          /\ error' = r.error
          /\ kernelLog' = r.kernelLog
          /\ ctx' = r.ctx
          /\ out' = r.out
          /\ internal' = r.internal
  /\ UNCHANGED <<layerVars, loop>>

CallSpikeBackward ==
  /\ status = "returned"
  /\ call.fn = "SpikeFunction.forward"
  /\ \E gv \in GradVMems(ctx.shape[1], ctx.shape[2]) :
       \E r \in {SpikeBackward(ctx, kernelLog, gv)} :
          /\ call' = [call EXCEPT !.fn = "SpikeFunction.backward",
                                  !.grad_v_mem = Some(gv)]
          /\ status' = r.status
          /\ error' = r.error
          /\ kernelLog' = r.kernelLog
          /\ out' = r.out
  /\ UNCHANGED <<ctx, internal>>
  /\ UNCHANGED <<layerVars, loop>>

NoCall == [fn |-> "none", args |-> None, grad_v_mem |-> None]
NoLayer == [initialised |-> FALSE, v_mem |-> << >>, i_syn |-> << >>, activations |-> << >>]
NoLoop == [pc |-> "idle"]

Init ==
  /\ cfg = None
  /\ layer = NoLayer
  /\ hist = << >>
  /\ call = NoCall
  /\ status = "idle"
  /\ error = ""
  /\ kernelLog = << >>
  /\ ctx = NoCtx
  /\ out = None
  /\ internal = None
  /\ loop = NoLoop

Next ==
  \/ CallIafForward
  \/ CallIafBackward
  \/ CallSpikeForward
  \/ CallSpikeBackward

Spec == Init /\ [][Next]_vars

(***************************************************************************)
(* LIF layer (layers/lif.py)                                               *)
(*                                                                         *)
(* cfg: [alpha_mem, alpha_syn, spike_threshold, spike_fn, min_v_mem,       *)
(*       norm_input, train_alphas, rows]; alpha_syn, spike_fn and          *)
(* min_v_mem are optional.  rows is the number of neurons (times batches)  *)
(* the layer is driven with.  The layer is modelled by the data it hands   *)
(* on: which buffers reach the autograd functions and which outputs are    *)
(* kept as state.  lif.py as it stands does not compile (the argument      *)
(* lists at its lines 141 and 160 lack a comma), reads names it never      *)
(* binds (num_timesteps, n_batches, n_neurons, SingleSpike,                *)
(* self.activations) and hands IntegrateAndFire one argument more than it  *)
(* takes.  The model follows the data flow its statements describe: each   *)
(* argument reaches the parameter its comment names, the buffers have the  *)
(* layout the callee requires and the activations buffer holds zeros.      *)
(***************************************************************************)
LayerRows == 1

LayerInputs == {-1000, 600, 2000}

SpikeFns ==
  {None, Some([kind |-> "MultiSpike", max_num_spikes_per_bin |-> 0]),
   Some([kind |-> "SingleSpike", max_num_spikes_per_bin |-> 1]),
   Some([kind |-> "MaxSpike", max_num_spikes_per_bin |-> 2])}

LayerConfigs ==
  [alpha_mem : ValidAlphas, alpha_syn : {None, Some(1), Some(2)},
   spike_threshold : Thresholds, spike_fn : SpikeFns,
   min_v_mem : {None, Some(-500)}, norm_input : BOOLEAN,
   train_alphas : {FALSE}, rows : 1..LayerRows]

\* _parse_activation_fn: max_num_spikes_per_bin of a spiking layer
ParseActivationFn(spike_fn) ==
  IF Get(spike_fn).kind = "MaxSpike" THEN Some(Get(spike_fn).max_num_spikes_per_bin)
  ELSE IF Get(spike_fn).kind = "MultiSpike" THEN None
  ELSE Some(1)

Zeros(N) == [n \in 1..N |-> 0]
Expand(x, N) == [n \in 1..N |-> x]
LastColumn(m) == [n \in 1..Len(m) |-> Last(m[n])]

\* _prepare_input: the state buffers, zero-initialised on first use
PrepareInput(l, N) ==
  IF l.initialised THEN l
  ELSE [initialised |-> TRUE, v_mem |-> Zeros(N), i_syn |-> Zeros(N),
        activations |-> Zeros(N)]

\* a variant that starts every call from a zero synaptic state
ForwardSynapticFromZero(input_2d, i_syn, alpha_syn) ==
  LeakyIntegrator(input_2d, Zeros(Len(input_2d)), Expand(alpha_syn, Len(input_2d)))

\* _forward_synaptic: the exponential filter applied to the input
ForwardSynaptic(input_2d, i_syn, alpha_syn) ==
  LeakyIntegrator(input_2d, i_syn, Expand(alpha_syn, Len(input_2d)))

\* rescaling of the input with 1 - alpha
NormInput(i_syn_2d, alpha_mem) ==
  [n \in 1..Len(i_syn_2d) |-> [t \in 1..Len(i_syn_2d[n]) |->
     ((2 - alpha_mem[n]) * i_syn_2d[n][t]) \div 2]]

\* the arguments _forward_membrane hands to IntegrateAndFire
ForwardMembraneArgs(c, l, inp) ==
  IafArgs(Tensor(2, TRUE, inp),
          Tensor(1, TRUE, Expand(c.alpha_mem, Len(inp))),
          c.train_alphas,
          Tensor(1, TRUE, l.v_mem),
          Tensor(1, TRUE, l.activations),
          c.spike_threshold,
          Some(Tensor(1, TRUE, Expand(c.spike_threshold, Len(inp)))),
          c.min_v_mem,
          ParseActivationFn(c.spike_fn))

\* the state buffers forward() persists from the potential trace v_mem_2d
PersistState(l, i_syn, v_mem_2d, output_2d) ==
  [l EXCEPT !.i_syn = i_syn, !.v_mem = LastColumn(v_mem_2d)]

\* LIF.forward on input_2d, from state l0: the synaptic and the membrane stage
LayerRun(c, l0, input_2d) ==
  LET N        == Len(input_2d)
      l        == PrepareInput(l0, N)
      syn      == ~IsNone(c.alpha_syn)
      i_syn_2d == IF syn THEN ForwardSynaptic(input_2d, l.i_syn, Get(c.alpha_syn))
                  ELSE input_2d
      i_syn    == IF syn THEN LastColumn(i_syn_2d) ELSE l.i_syn
      inp      == IF c.norm_input
                  THEN NormInput(i_syn_2d, Expand(c.alpha_mem, N))
                  ELSE i_syn_2d
      leak     == LeakyIntegrator(inp, l.v_mem, Expand(c.alpha_mem, N))
      a        == ForwardMembraneArgs(c, l, inp)
      r        == IafForward(a, 0)
  IN IF IsNone(c.spike_fn)
     THEN [ok |-> TRUE, spiking |-> FALSE, before |-> l,
           layer |-> PersistState(l, i_syn, leak, leak),
           i_syn_2d |-> i_syn_2d, output |-> leak, v_mem_2d |-> leak,
           args |-> None, fn |-> None]
     ELSE IF r.status = "returned"
     THEN [ok |-> TRUE, spiking |-> TRUE, before |-> l,
           layer |-> PersistState(l, i_syn, Get(r.out).v_mem, Get(r.out).spikes),
           i_syn_2d |-> i_syn_2d, output |-> Get(r.out).spikes,
           v_mem_2d |-> Get(r.out).v_mem, args |-> Some(a), fn |-> Some(r)]
     ELSE [ok |-> FALSE, spiking |-> TRUE, before |-> l,
           layer |-> [l EXCEPT !.i_syn = i_syn],
           i_syn_2d |-> i_syn_2d, output |-> << >>, v_mem_2d |-> << >>,
           args |-> Some(a), fn |-> Some(r)]

\* time steps processed so far
Elapsed(h) == SumSeq([i \in 1..Len(h) |-> Len(h[i].input[1])])

LayerForward ==
  /\ Len(hist) < MaxCalls
  /\ \E T \in 1..(LayerT - Elapsed(hist)) :
       \E input_2d \in Matrices(LayerInputs, cfg.rows, T) :
         \E r \in {LayerRun(cfg, layer, input_2d)} :
            /\ layer' = r.layer
            /\ hist' = Append(hist, [input |-> input_2d, ok |-> r.ok,
                                     before |-> r.before, i_syn |-> r.i_syn_2d,
                                     output |-> r.output, v_mem |-> r.v_mem_2d,
                                     args |-> r.args])
            /\ IF r.spiking
               THEN /\ call' = [fn |-> "IntegrateAndFire.forward",
                                args |-> Get(r.args), grad_v_mem |-> None]
                    /\ status' = Get(r.fn).status
                    /\ error' = Get(r.fn).error
                    /\ kernelLog' = Get(r.fn).kernelLog
                    /\ ctx' = Get(r.fn).ctx
                    /\ out' = Get(r.fn).out
                    /\ internal' = Get(r.fn).internal
               ELSE UNCHANGED fnVars
  /\ UNCHANGED <<cfg, loop>>

LayerInit ==
  /\ cfg \in LayerConfigs
  /\ layer = NoLayer
  /\ hist = << >>
  /\ call = NoCall
  /\ status = "idle"
  /\ error = ""
  /\ kernelLog = << >>
  /\ ctx = NoCtx
  /\ out = None
  /\ internal = None
  /\ loop = NoLoop

LayerNext == LayerForward

SpecLayer == LayerInit /\ [][LayerNext]_vars

(***************************************************************************)
(* IntegrateAndFire.forward with the kernel followed iteration by          *)
(* iteration: one row, the reset loop one subtraction per step.  The call  *)
(* is "running" from the kernel invocation until the kernel has gone       *)
(* through the last time step; the function then saves its context and     *)
(* returns.  The kernel is a synchronous computation that nothing          *)
(* suspends: while it can take a step it does.                             *)
(***************************************************************************)
\* the kernel at the start of step t, post being the state the previous step left
StepBegin(k, t, post, spikes, trace) ==
  LET v == MulAlpha(k.alpha[1], post) + k.inp[1][t]
  IN [pc |-> "loop", t |-> t, v |-> v, count |-> 0,
      spikes |-> spikes, trace |-> Append(trace, v)]

\* the condition of the reset loop
LoopCondition(k, l) ==
  l.v >= k.threshold /\ (k.max_spikes < 0 \/ l.count < k.max_spikes)

\* validation passed: the kernel is invoked
KernelLaunch ==
  /\ status = "idle"
  /\ \E T \in 1..MaxT :
       \E x \in Matrices(InputValues, 1, T), al \in AlphaValues, v \in VMemInits,
          ac \in ActivationValues, thr \in Thresholds,
          m \in {None} \cup {Some(Tensor(1, TRUE, <<q>>)) : q \in MembraneSubtracts},
          mn \in MinVMems, cap \in MaxSpikes :
         LET a  == IafArgs(Tensor(2, TRUE, x), Tensor(1, TRUE, <<al>>), FALSE,
                           Tensor(1, TRUE, <<v>>), Tensor(1, TRUE, <<ac>>), thr, m, mn, cap)
             ms == MembraneSubtractOrDefault(a)
             k  == LifForwardCall(a, ms)
         IN /\ IafValidate(a, ms) = ""
            /\ call' = [fn |-> "IntegrateAndFire.forward", args |-> a,
                        grad_v_mem |-> None]
            /\ status' = "running"
            /\ kernelLog' = <<k>>
            /\ loop' = StepBegin(k, 1,
                                 PostReset(k.v_mem_init[1], k.activations[1],
                                           k.membrane_subtract[1], k.min_v_mem,
                                           k.apply_min),
                                 << >>, << >>)
  /\ UNCHANGED <<layerVars, error, ctx, out, internal>>

\* one iteration of the reset loop: one spike, one subtraction
KernelLoopStep ==
  /\ status = "running"
  /\ loop.pc = "loop"
  /\ LoopCondition(kernelLog[1], loop)
  /\ loop' = [loop EXCEPT !.v = @ - kernelLog[1].membrane_subtract[1],
                          !.count = (@ + 1) % CounterModulus]
  /\ UNCHANGED <<layerVars, call, status, error, kernelLog, ctx, out, internal>>

\* the reset loop ends: record the spikes, clamp, go to the next time step
KernelLoopExit ==
  /\ status = "running"
  /\ loop.pc = "loop"
  /\ ~LoopCondition(kernelLog[1], loop)
  /\ LET k      == kernelLog[1]
         post   == ClampLow(loop.v, k.min_v_mem, k.apply_min)
         spikes == Append(loop.spikes, loop.count)
     IN loop' = IF loop.t < Len(k.inp[1])
                THEN StepBegin(k, loop.t + 1, post, spikes, loop.trace)
                ELSE [loop EXCEPT !.pc = "done", !.v = post, !.spikes = spikes]
  /\ UNCHANGED <<layerVars, call, status, error, kernelLog, ctx, out, internal>>

\* the kernel is through: the context is saved and the outputs are returned
KernelReturn ==
  /\ status = "running"
  /\ loop.pc = "done"
  /\ status' = "returned"
  /\ ctx' = [kind              |-> "IntegrateAndFire",
             threshold         |-> call.args.threshold,
             min_v_mem         |-> call.args.min_v_mem,
             membrane_subtract |->
               Get(CtxMembraneSubtract(MembraneSubtractOrDefault(call.args).data,
                                       call.args.alpha.data)),
             v_mem             |-> <<loop.trace>>,
             alpha             |-> call.args.alpha.data,
             get_alpha_grads   |-> call.args.alpha_requires_grad]
  /\ out' = Some([spikes |-> <<loop.spikes>>, v_mem |-> <<loop.trace>>])
  /\ UNCHANGED <<layerVars, call, error, kernelLog, internal, loop>>

LoopNext ==
  \/ KernelLaunch
  \/ KernelLoopStep
  \/ KernelLoopExit
  \/ KernelReturn

SpecLoop ==
  /\ Init
  /\ [][LoopNext]_vars
  /\ WF_vars(KernelLoopStep)
  /\ WF_vars(KernelLoopExit)
  /\ WF_vars(KernelReturn)

(***************************************************************************)
(* Properties                                                              *)
(***************************************************************************)
IafForwardReturned == call.fn = "IntegrateAndFire.forward" /\ status = "returned"

\* the rows for which every per-row tensor of the call holds a value
RowsOf(a) ==
  {n \in 1..Len(a.inp.data) :
     /\ n <= Len(a.alpha.data)
     /\ n <= Len(a.v_mem_init.data)
     /\ n <= Len(a.activations.data)
     /\ n <= Len(MembraneSubtractOrDefault(a).data)}

ConcatRows(m1, m2) == [n \in 1..Len(m1) |-> m1[n] \o m2[n]]

TwoEqualChunks ==
  /\ Len(hist) = 2
  /\ ~IsNone(cfg.spike_fn)
  /\ hist[1].ok /\ hist[2].ok
  /\ Len(hist[1].input[1]) = Len(hist[2].input[1])

\* the single call over the steps of both chunks, from the state the first chunk started in
WholeRun ==
  LET a1 == Get(hist[1].args)
      a2 == Get(hist[2].args)
  IN IafForward([a1 EXCEPT !.inp.data = ConcatRows(a1.inp.data, a2.inp.data)], 0)

SecondChunkBothCarried ==
  LET a2 == Get(hist[2].args)
  IN IafForward([a2 EXCEPT !.v_mem_init.data = LastColumn(hist[1].v_mem),
                           !.activations.data = LastColumn(hist[1].output)], 0)

\* the kernel itself is chunk-invariant once the spike counts are carried as well
ChunkInvarianceBothCarried ==
  TwoEqualChunks =>
    /\ SecondChunkBothCarried.status = "returned"
    /\ Get(WholeRun.out).spikes
         = ConcatRows(hist[1].output, Get(SecondChunkBothCarried.out).spikes)
    /\ Get(WholeRun.out).v_mem
         = ConcatRows(hist[1].v_mem, Get(SecondChunkBothCarried.out).v_mem)

\* the preconditions of IntegrateAndFire.forward, as documented
RowCountMismatch(a) ==
  LET N == Len(a.inp.data)
  IN \/ Len(a.alpha.data) # N
     \/ Len(a.v_mem_init.data) # N
     \/ Len(a.activations.data) # N
     \/ (~IsNone(a.membrane_subtract) /\ Len(Get(a.membrane_subtract).data) # N)

ShapeOrRangeViolation(a) ==
  \/ a.inp.ndim # 2 \/ ~a.inp.contig
  \/ a.alpha.ndim # 1 \/ ~a.alpha.contig
  \/ (~IsNone(a.membrane_subtract)
        /\ (Get(a.membrane_subtract).ndim # 1 \/ ~Get(a.membrane_subtract).contig))
  \/ a.v_mem_init.ndim # 1 \/ ~a.v_mem_init.contig
  \/ a.activations.ndim # 1 \/ ~a.activations.contig
  \/ (~IsNone(a.min_v_mem) /\ a.threshold <= Get(a.min_v_mem))
  \/ \E i \in DOMAIN a.alpha.data : a.alpha.data[i] < 0 \/ a.alpha.data[i] > 2

FailedBeforeKernel ==
  status = "raised" /\ kernelLog = << >> /\ out = None /\ ctx = NoCtx

\* C2: whenever a precondition of IntegrateAndFire.forward is violated (rank,
\* contiguity, row count, threshold <= min_v_mem, alpha outside [0,1]) the call ends
\* in an error before the kernel is invoked and before outputs or context are written.
FailFastValidation ==
  (call.fn = "IntegrateAndFire.forward"
     /\ (ShapeOrRangeViolation(call.args) \/ RowCountMismatch(call.args)))
    => FailedBeforeKernel

\* the same without the row counts: every violation the function does check
FailFastCheckedViolations ==
  (call.fn = "IntegrateAndFire.forward" /\ ShapeOrRangeViolation(call.args))
    => FailedBeforeKernel

HasNonzero(g) == \E n \in 1..Len(g) : \E t \in 1..Len(g[n]) : g[n][t] # 0

BackwardKernelRan ==
  \E i \in 1..Len(kernelLog) :
    kernelLog[i].fn \in {"lifBackward", "lifBackwardAlpha", "spikeBackward"}

\* C3: backward with a grad_v_mem holding any nonzero element raises the
\* unsupported-gradient error, returns no gradient and runs no backward kernel; with
\* an all-zero grad_v_mem it does not raise.
NonzeroGradVMemRaises ==
  call.fn \in {"IntegrateAndFire.backward", "SpikeFunction.backward"} =>
    IF HasNonzero(Get(call.grad_v_mem))
    THEN status = "raised" /\ error = UnsupportedGradient /\ out = None
         /\ ~BackwardKernelRan
    ELSE status = "returned"

\* C4: with max_num_spikes_per_bin = k no element of the spikes output exceeds k.
SpikeCap ==
  (IafForwardReturned /\ ~IsNone(call.args.max_num_spikes_per_bin)) =>
    \A n \in 1..Len(Get(out).spikes) : \A t \in 1..Len(Get(out).spikes[n]) :
      Get(out).spikes[n][t] <= Get(call.args.max_num_spikes_per_bin)

\* a capped call whose potential would have justified more spikes than the cap
SpikeCapWitness ==
  /\ IafForwardReturned
  /\ call.args.max_num_spikes_per_bin = Some(1)
  /\ \E n \in RowsOf(call.args) : \E t \in 1..Len(Get(out).spikes[n]) :
       /\ Get(out).spikes[n][t] = 1
       /\ MembraneSubtractOrDefault(call.args).data[n] > 0
       /\ Get(out).v_mem[n][t] - MembraneSubtractOrDefault(call.args).data[n]
            >= call.args.threshold
       /\ call.args.activations.data[n] > 0

\* the state row n of the call starts from: the carried potential after its reset
StartState(a, n) ==
  PostReset(a.v_mem_init.data[n], a.activations.data[n],
            MembraneSubtractOrDefault(a).data[n],
            IF IsNone(a.min_v_mem) THEN 0 ELSE Get(a.min_v_mem),
            ~IsNone(a.min_v_mem))

\* C5: with min_v_mem set, the state left after every step is >= min_v_mem, and the
\* potential saved for a step is the decayed previous state plus the input: the
\* pre-reset value, which the clamp does not alter.
ClampInvariant ==
  (IafForwardReturned /\ ~IsNone(call.args.min_v_mem)) =>
    \A n \in RowsOf(call.args) : \A t \in 1..Len(call.args.inp.data[n]) :
      /\ Get(internal)[n][t] >= Get(call.args.min_v_mem)
      /\ Get(out).v_mem[n][t]
           = MulAlpha(call.args.alpha.data[n],
                      IF t = 1 THEN StartState(call.args, n)
                      ELSE Get(internal)[n][t - 1])
             + call.args.inp.data[n][t]
      /\ ctx.v_mem[n][t] = Get(out).v_mem[n][t]

\* a step where the clamp engaged: the saved potential lies below min_v_mem
ClampWitness ==
  /\ IafForwardReturned
  /\ ~IsNone(call.args.min_v_mem)
  /\ \E n \in RowsOf(call.args) : \E t \in 1..Len(call.args.inp.data[n]) :
       /\ Get(out).v_mem[n][t] < Get(call.args.min_v_mem)
       /\ Get(internal)[n][t] = Get(call.args.min_v_mem)

ScenarioCall ==
  /\ IafForwardReturned
  /\ call.args.inp.data = << <<600, 600, 600, 600>> >>
  /\ call.args.alpha.data = <<1>>
  /\ call.args.threshold = 1000
  /\ MembraneSubtractOrDefault(call.args).data = <<1000>>
  /\ call.args.v_mem_init.data = <<0>>
  /\ call.args.activations.data = <<0>>

\* C7 as stated: the scenario yields potentials [0.6, 0.9, 0.75, 0.675] and no spike.
ScenarioAsStated ==
  ScenarioCall =>
    /\ Get(out).v_mem = << <<600, 900, 750, 675>> >>
    /\ Get(out).spikes = << <<0, 0, 0, 0>> >>

\* C7 amended: the scenario yields potentials [0.6, 0.9, 1.05, 0.625] and spikes
\* [0, 0, 1, 0]: the third step reaches the threshold.
ScenarioAmended ==
  ScenarioCall =>
    /\ Get(out).v_mem = << <<600, 900, 1050, 625>> >>
    /\ Get(out).spikes = << <<0, 0, 1, 0>> >>

ResetCompensation ==
  (call.fn = "IntegrateAndFire.backward" /\ status = "returned") =>
    LET ms == MembraneSubtractOrDefault(call.args).data
        al == call.args.alpha.data
    IN /\ kernelLog[1].fn = "lifForward"
       /\ kernelLog[1].membrane_subtract = ms
       /\ kernelLog[2].fn = "lifBackward"
       /\ call.args.alpha_requires_grad =>
            Len(kernelLog) = 3 /\ kernelLog[3].fn = "lifBackwardAlpha"
       /\ \A i \in 2..Len(kernelLog) : \A n \in RowsOf(call.args) :
            kernelLog[i].membrane_subtract[n] = MulAlpha(al[n], ms[n])

\* a backward pass with both kernels whose scaled reset differs from the unscaled one
ResetCompensationWitness ==
  /\ call.fn = "IntegrateAndFire.backward"
  /\ status = "returned"
  /\ Len(kernelLog) = 3
  /\ \E n \in RowsOf(call.args) :
       /\ kernelLog[3].membrane_subtract[n] = 250
       /\ kernelLog[1].membrane_subtract[n] = 500

\* C10: in SpikeFunction.forward and IntegrateAndFire.forward the lower limit the
\* kernel applies is the caller's min_v_mem when given, and none when it is absent.
LowerBoundPassThrough ==
  (call.fn \in {"IntegrateAndFire.forward", "SpikeFunction.forward"}
     /\ kernelLog # << >>) =>
    IF IsNone(call.args.min_v_mem)
    THEN ~kernelLog[1].apply_min
    ELSE kernelLog[1].apply_min /\ kernelLog[1].min_v_mem = Get(call.args.min_v_mem)

\* the kernel followed step by step returns what lifForward computes
LoopAgreesWithLifForward ==
  (loop.pc = "done" /\ status = "returned") =>
    /\ IafForward(call.args, 0).status = "returned"
    /\ out = IafForward(call.args, 0).out
    /\ ctx = IafForward(call.args, 0).ctx

\* C11: every IntegrateAndFire.forward call that passes validation and invokes the
\* kernel returns: the reset loop of every step ends after finitely many iterations,
\* with max_num_spikes_per_bin absent and for any membrane_subtract.
Termination == (status = "running") ~> (status = "returned")

\* the same for the calls whose reset amount is positive or whose spikes are capped
TerminationWithProgress ==
  (status = "running"
     /\ (kernelLog[1].membrane_subtract[1] > 0 \/ kernelLog[1].max_spikes >= 0))
    ~> (status = "returned")

====
